---- MODULE Spec2Model ----
(***************************************************************************)
(* Tic-Tac-Toe multiplayer backend (src/server.js): the room store, the    *)
(* Socket.IO event handlers (createRoom, joinRoom, makeMove, newGame,      *)
(* disconnect) and the board evaluation (checkWinner).                     *)
(*                                                                         *)
(* Node runs every handler to completion before the next event, so each    *)
(* handler is one atomic action.                                           *)
(***************************************************************************)
EXTENDS Integers, Sequences, FiniteSets, TLC

(***************************************************************************)
(* Bounds of the model and program constants.                              *)
(***************************************************************************)

\* Highest cell index that clients offer in a well-formed makeMove (the
\* out-of-range indices -1 and 9 are always offered as well).
MaxCell == 5

\* Length of a room code (generateRoomCode's loop bound, joinRoom's check).
CodeLen == 6

\* Socket ids.  An id that has disconnected and shows up again stands for a
\* new connection: the server keeps nothing about a socket outside `rooms`.
Sockets == {"s1", "s2"}

\* The characters generateRoomCode's Math.random() calls may draw in a run:
\* a room code is CodeLen copies of one of them.
GenChars == {"A", "B"}

Null == "null"
Undefined == "undefined"
Markers == {"X", "O"}

Cells == 0..8

(***************************************************************************)
(* Strings are sequences of one-character strings, so that toUpperCase     *)
(* and length are computed.                                                *)
(***************************************************************************)

UpperChar(ch) ==
    CASE ch = "a" -> "A"
      [] ch = "b" -> "B"
      [] OTHER -> ch

toUpperCase(str) == [i \in DOMAIN str |-> UpperChar(str[i])]

Repeat(ch, n) == [i \in 1..n |-> ch]

GenCodes == {Repeat(ch, CodeLen) : ch \in GenChars}

\* The roomCode strings clients send: the generated codes, one of them in
\* lower case, a short code and "".
JoinStrings ==
    GenCodes \cup {Repeat("a", CodeLen), Repeat("A", CodeLen - 1), <<>>}

\* joinRoom payloads: no payload at all, an object without roomCode, an
\* object whose roomCode is a number, an object whose roomCode is a string.
JoinPayloads ==
    {[kind |-> k, roomCode |-> <<>>] : k \in {"nodata", "missing", "number"}}
      \cup {[kind |-> "string", roomCode |-> c] : c \in JoinStrings}

\* makeMove payloads: no payload at all, an object without cellIndex, an
\* object with an integer cellIndex.
MovePayloads ==
    {[kind |-> k, cellIndex |-> 0] : k \in {"nodata", "missing"}}
      \cup {[kind |-> "int", cellIndex |-> i] : i \in (0..MaxCell) \cup {-1, 9}}

(***************************************************************************)
(* Error messages (the text of the `error` events).                        *)
(***************************************************************************)

AlreadyInSession == "Sei gia in una stanza."
InvalidCode == "Codice stanza non valido."
NotFound == "Stanza non trovata."
SessionFull == "Stanza piena."
NotInSession == "Non sei in una stanza."
GameNotActive == "La partita non e attiva."
NotYourTurn == "Non e il tuo turno."
InvalidMove == "Mossa non valida."
InsufficientPlayers == "Servono 2 giocatori per iniziare."

(***************************************************************************)
(* State.                                                                  *)
(***************************************************************************)

VARIABLES
    rooms,      \* the Map `rooms`, as the sequence of its values in insertion order
    out,        \* the events the last handler emitted, in order
    last,       \* the last event handled: [op, sock, code], code being joinRoom's
                \* local `code` (undefined shown as the empty string)
    moved,      \* history: per room code, the markers of the last two accepted moves
                \* and whether gameEnd was broadcast since the last gameStart
    crashed,    \* a handler threw and nothing caught it
    evalBoard,  \* board evaluation on its own: the board given to checkWinner
    evalResult  \* ... and what checkWinner returned ("pending" before the call)

vars == <<rooms, out, last, moved, crashed, evalBoard, evalResult>>

evalVars == <<evalBoard, evalResult>>

EmptyBoard == [i \in Cells |-> Null]

Range(f) == {f[i] : i \in DOMAIN f}

NoMoves == [last |-> Null, prev |-> Null, ended |-> FALSE]

(***************************************************************************)
(* The room store.                                                         *)
(***************************************************************************)

\* No code is ever found taken.
has_Never(code) == FALSE

\* rooms.has(code)
has(code) == \E i \in DOMAIN rooms : rooms[i].code = code

\* rooms.get(code): the position of the room in `rooms`, 0 for undefined.
get(code) ==
    IF has(code) THEN CHOOSE i \in DOMAIN rooms : rooms[i].code = code ELSE 0

\* function getRoom(code)
getRoom(code) == get(toUpperCase(code))

includes(seq, x) == \E i \in DOMAIN seq : seq[i] = x

\* findPlayerRoom that finds nothing.
findPlayerRoom_Null(socketId) == 0

\* function findPlayerRoom(socketId): the first room, in insertion order,
\* whose players include socketId; 0 for null.
findPlayerRoom(socketId) ==
    IF \E i \in DOMAIN rooms : includes(rooms[i].players, socketId)
    THEN CHOOSE i \in DOMAIN rooms :
            /\ includes(rooms[i].players, socketId)
            /\ \A j \in 1..(i - 1) : ~includes(rooms[j].players, socketId)
    ELSE 0

\* function createRoom(socketId), given the code generateRoomCode returned.
createRoom(code, socketId) ==
    [code |-> code,
     players |-> <<socketId>>,
     board |-> EmptyBoard,
     currentPlayer |-> "X",
     gameActive |-> FALSE,
     symbols |-> (socketId :> "X")]

\* Every player is taken for the creator.
symbolOf_Creator(room, socketId) == "X"

\* room.symbols[socketId]
symbolOf(room, socketId) ==
    IF socketId \in DOMAIN room.symbols THEN room.symbols[socketId] ELSE Undefined

\* joinRoom, "Aggiungi giocatore alla stanza".
addPlayer(room, socketId) ==
    [room EXCEPT !.players = Append(@, socketId),
                 !.symbols = (socketId :> "O") @@ @,
                 !.gameActive = TRUE]

\* removePlayer without `room.gameActive = false`.
removePlayer_KeepsActive(room, socketId) ==
    [room EXCEPT !.players = SelectSeq(@, LAMBDA id : id # socketId),
                 !.symbols = [id \in (DOMAIN @) \ {socketId} |-> @[id]]]

\* disconnect, "Rimuovi giocatore dalla stanza".
removePlayer(room, socketId) ==
    [room EXCEPT !.players = SelectSeq(@, LAMBDA id : id # socketId),
                 !.symbols = [id \in (DOMAIN @) \ {socketId} |-> @[id]],
                 !.gameActive = FALSE]

\* rooms.delete(code)
delete(rs, code) == SelectSeq(rs, LAMBDA room : room.code # code)

\* The empty room is left in the store.
deleteIfEmpty_Never(rs, r) == rs

\* disconnect, "Se la stanza e vuota, eliminala", on the store in which the
\* room at position r has already lost its player.
deleteIfEmpty(rs, r) ==
    IF Len(rs[r].players) = 0 THEN delete(rs, rs[r].code) ELSE rs

(***************************************************************************)
(* Game logic.                                                             *)
(***************************************************************************)

WINNING_COMBINATIONS ==
    << <<0, 1, 2>>, <<3, 4, 5>>, <<6, 7, 8>>,
       <<0, 3, 6>>, <<1, 4, 7>>, <<2, 5, 8>>,
       <<0, 4, 8>>, <<2, 4, 6>> >>

\* The third cell of the combination is not compared.
comboWins_TwoCells(board, combo) ==
    /\ board[combo[1]] # Null
    /\ board[combo[1]] = board[combo[2]]

\* The condition of checkWinner's loop body for one combination.
comboWins(board, combo) ==
    /\ board[combo[1]] # Null
    /\ board[combo[1]] = board[combo[2]]
    /\ board[combo[1]] = board[combo[3]]

\* function checkWinner(board): "X", "O", "draw" or Null.
checkWinner(board) ==
    IF \E k \in DOMAIN WINNING_COMBINATIONS : comboWins(board, WINNING_COMBINATIONS[k])
    THEN LET first == CHOOSE k \in DOMAIN WINNING_COMBINATIONS :
                    /\ comboWins(board, WINNING_COMBINATIONS[k])
                    /\ \A j \in 1..(k - 1) : ~comboWins(board, WINNING_COMBINATIONS[j])
         IN  board[WINNING_COMBINATIONS[first][1]]
    ELSE IF \A i \in Cells : board[i] # Null THEN "draw"
    ELSE Null

\* resetGame without `room.currentPlayer = 'X'`.
resetGame_KeepsTurn(room) ==
    [room EXCEPT !.board = EmptyBoard,
                 !.gameActive = TRUE]

\* function resetGame(room)
resetGame(room) ==
    [room EXCEPT !.board = EmptyBoard,
                 !.currentPlayer = "X",
                 !.gameActive = TRUE]

\* The turn stays with the player who moved.
nextPlayer_Same(playerSymbol) == playerSymbol

\* makeMove: room.currentPlayer = playerSymbol === 'X' ? 'O' : 'X'
nextPlayer(playerSymbol) == IF playerSymbol = "X" THEN "O" ELSE "X"

\* The target cell is not checked for being empty.
invalidMove_AnyCell(room, data) ==
    \/ data.kind # "int"
    \/ data.cellIndex < 0
    \/ data.cellIndex > 8

\* makeMove, "Verifica validita della mossa": the condition of the rejection.
invalidMove(room, data) ==
    \/ data.kind # "int"
    \/ data.cellIndex < 0
    \/ data.cellIndex > 8
    \/ room.board[data.cellIndex] # Null

\* The room stays active after a win or a draw.
endGame_StaysActive(room) == room

\* makeMove, `room.gameActive = false` on a win or a draw.
endGame(room) == [room EXCEPT !.gameActive = FALSE]

\* The marker lands in the next cell.
applyMove_NextCell(room, cellIndex, playerSymbol) ==
    [room EXCEPT !.board = [@ EXCEPT ![(cellIndex + 1) % 9] = playerSymbol],
                 !.currentPlayer = nextPlayer(playerSymbol)]

\* makeMove, "Effettua la mossa".
applyMove(room, cellIndex, playerSymbol) ==
    [room EXCEPT !.board = [@ EXCEPT ![cellIndex] = playerSymbol],
                 !.currentPlayer = nextPlayer(playerSymbol)]

(***************************************************************************)
(* Outbound events.                                                        *)
(***************************************************************************)

\* socket.emit(event, payload)
Emit(socketId, event, payload) ==
    [audience |-> "socket", to |-> {socketId}, event |-> event, payload |-> payload]

\* io.to(room.code).emit(event, payload): the sockets joined to the
\* Socket.IO room are the room's players (socket.join on create and join,
\* and a socket has left its rooms when its disconnect handler runs).
Broadcast(room, event, payload) ==
    [audience |-> "room", to |-> Range(room.players), event |-> event,
     payload |-> payload]

\* The error goes to every socket (io.emit) instead of the requester.
Error_Broadcast(socketId, message) ==
    [audience |-> "room", to |-> Sockets, event |-> "error",
     payload |-> [message |-> message]]

Error(socketId, message) == Emit(socketId, "error", [message |-> message])

GameStartedMessage == "La partita e iniziata! X inizia."
NewGameMessage == "Nuova partita! X inizia."
DrawMessage == "Pareggio!"
WonMessage(winner) == IF winner = "X" THEN "X ha vinto!" ELSE "O ha vinto!"
DisconnectedMessage == "L'avversario si e disconnesso."

(***************************************************************************)
(* Initial state: the store is empty.                                      *)
(***************************************************************************)

Init ==
    /\ rooms = <<>>
    /\ out = <<>>
    /\ last = [op |-> "none", sock |-> "none", code |-> <<>>]
    /\ moved = [c \in GenCodes |-> NoMoves]
    /\ crashed = FALSE
    /\ evalBoard = EmptyBoard
    /\ evalResult = "pending"

\* A handler rejects the request: one `error` event to the socket, return.
Reject(socketId, message) ==
    /\ out' = <<Error(socketId, message)>>
    /\ UNCHANGED <<rooms, moved, crashed>>

\* A handler throws (a TypeError on the payload): nothing catches it.
Throw ==
    /\ crashed' = TRUE
    /\ out' = <<>>
    /\ UNCHANGED <<rooms, moved>>

(***************************************************************************)
(* socket.on('createRoom')                                                 *)
(* generateRoomCode draws codes until one is not a key of `rooms`; with    *)
(* every code of GenCodes taken it would not return, and the action is     *)
(* not enabled.                                                            *)
(***************************************************************************)
CreateRoom(s) ==
    /\ ~crashed
    /\ UNCHANGED evalVars
    /\ last' = [op |-> "createRoom", sock |-> s, code |-> <<>>]
    /\ IF findPlayerRoom(s) # 0
       THEN Reject(s, AlreadyInSession)
       ELSE \E code \in GenCodes :
              /\ ~has(code)
              /\ rooms' = Append(rooms, createRoom(code, s))
              /\ moved' = [moved EXCEPT ![code] = NoMoves]
              /\ out' = <<Emit(s, "roomCreated", [roomCode |-> code, symbol |-> "X"])>>
              /\ UNCHANGED crashed

(***************************************************************************)
(* socket.on('joinRoom')                                                   *)
(***************************************************************************)
JoinRoom(s, data) ==
    /\ ~crashed
    /\ UNCHANGED evalVars
    /\ last' = [op |-> "joinRoom", sock |-> s,
                code |-> IF data.kind = "string" THEN toUpperCase(data.roomCode)
                         ELSE <<>>]
    /\ IF data.kind \in {"nodata", "number"}
       THEN \* data.roomCode of undefined; roomCode.toUpperCase is not a function
            Throw
       ELSE IF data.kind = "missing"
                 \/ toUpperCase(data.roomCode) = <<>>
                 \/ Len(toUpperCase(data.roomCode)) # CodeLen
       THEN Reject(s, InvalidCode)
       ELSE LET code == toUpperCase(data.roomCode)
                r == getRoom(code)
            IN  IF r = 0 THEN Reject(s, NotFound)
                ELSE IF Len(rooms[r].players) >= 2 THEN Reject(s, SessionFull)
                ELSE IF findPlayerRoom(s) # 0 THEN Reject(s, AlreadyInSession)
                ELSE LET room == addPlayer(rooms[r], s)
                     IN  /\ rooms' = [rooms EXCEPT ![r] = room]
                         /\ out' = << Emit(s, "joinedRoom",
                                           [roomCode |-> room.code, symbol |-> "O"]),
                                      Broadcast(room, "gameStart",
                                           [board |-> room.board,
                                            currentPlayer |-> room.currentPlayer,
                                            message |-> GameStartedMessage]) >>
                         /\ moved' = [moved EXCEPT ![room.code].ended = FALSE]
                         /\ UNCHANGED crashed

(***************************************************************************)
(* socket.on('makeMove')                                                   *)
(***************************************************************************)
MakeMove(s, data) ==
    /\ ~crashed
    /\ UNCHANGED evalVars
    /\ last' = [op |-> "makeMove", sock |-> s, code |-> <<>>]
    /\ LET r == findPlayerRoom(s)
       IN  IF r = 0 THEN Reject(s, NotInSession)
           ELSE IF ~rooms[r].gameActive THEN Reject(s, GameNotActive)
           ELSE IF data.kind = "nodata" THEN \* data.cellIndex of undefined
                Throw
           ELSE LET playerSymbol == symbolOf(rooms[r], s)
                IN  IF playerSymbol # rooms[r].currentPlayer THEN Reject(s, NotYourTurn)
                    ELSE IF invalidMove(rooms[r], data) THEN Reject(s, InvalidMove)
                    ELSE LET room == applyMove(rooms[r], data.cellIndex, playerSymbol)
                             winner == checkWinner(room.board)
                         IN  /\ moved' = [moved EXCEPT ![room.code] =
                                            [last |-> playerSymbol, prev |-> @.last,
                                             ended |-> winner # Null]]
                             /\ UNCHANGED crashed
                             /\ IF winner # Null
                                THEN LET ended == endGame(room)
                                     IN  /\ rooms' = [rooms EXCEPT ![r] = ended]
                                         /\ out' = << Broadcast(ended, "gameEnd",
                                                [board |-> ended.board,
                                                 winner |-> winner,
                                                 message |-> IF winner = "draw"
                                                             THEN DrawMessage
                                                             ELSE WonMessage(winner)]) >>
                                ELSE /\ rooms' = [rooms EXCEPT ![r] = room]
                                     /\ out' = << Broadcast(room, "moveMade",
                                                [board |-> room.board,
                                                 currentPlayer |-> room.currentPlayer,
                                                 lastMove |-> [cellIndex |-> data.cellIndex,
                                                               symbol |-> playerSymbol]]) >>

(***************************************************************************)
(* socket.on('newGame')                                                    *)
(***************************************************************************)
NewGame(s) ==
    /\ ~crashed
    /\ UNCHANGED evalVars
    /\ last' = [op |-> "newGame", sock |-> s, code |-> <<>>]
    /\ LET r == findPlayerRoom(s)
       IN  IF r = 0 THEN Reject(s, NotInSession)
           ELSE IF Len(rooms[r].players) # 2 THEN Reject(s, InsufficientPlayers)
           ELSE LET room == resetGame(rooms[r])
                IN  /\ rooms' = [rooms EXCEPT ![r] = room]
                    /\ moved' = [moved EXCEPT ![room.code] = NoMoves]
                    /\ out' = << Broadcast(room, "gameStart",
                                     [board |-> room.board,
                                      currentPlayer |-> room.currentPlayer,
                                      message |-> NewGameMessage]) >>
                    /\ UNCHANGED crashed

(***************************************************************************)
(* socket.on('disconnect')                                                 *)
(***************************************************************************)
Disconnect(s) ==
    /\ ~crashed
    /\ UNCHANGED evalVars
    /\ last' = [op |-> "disconnect", sock |-> s, code |-> <<>>]
    /\ UNCHANGED crashed
    /\ LET r == findPlayerRoom(s)
       IN  IF r = 0
           THEN /\ out' = <<>>
                /\ UNCHANGED <<rooms, moved>>
           ELSE LET room == removePlayer(rooms[r], s)
                    left == [rooms EXCEPT ![r] = room]
                IN  /\ rooms' = deleteIfEmpty(left, r)
                    /\ out' = << Broadcast(room, "playerDisconnected",
                                     [message |-> DisconnectedMessage]) >>
                    /\ moved' = IF Len(room.players) = 0
                                THEN [moved EXCEPT ![room.code] = NoMoves]
                                ELSE moved

Next ==
    \/ \E s \in Sockets : CreateRoom(s)
    \/ \E s \in Sockets, data \in JoinPayloads : JoinRoom(s, data)
    \/ \E s \in Sockets, data \in MovePayloads : MakeMove(s, data)
    \/ \E s \in Sockets : NewGame(s)
    \/ \E s \in Sockets : Disconnect(s)

Spec == Init /\ [][Next]_vars

(***************************************************************************)
(* Three sockets, so that a room with two players and a room with one      *)
(* exist together; well-formed requests, cells 0..MaxCell3.                *)
(***************************************************************************)

MaxCell3 == 1

Sockets3 == Sockets \cup {"s3"}

MovePayloads3 == {[kind |-> "int", cellIndex |-> i] : i \in 0..MaxCell3}

JoinPayloads3 == {[kind |-> "string", roomCode |-> c] : c \in GenCodes}

Next3 ==
    \/ \E s \in Sockets3 : CreateRoom(s)
    \/ \E s \in Sockets3, data \in JoinPayloads3 : JoinRoom(s, data)
    \/ \E s \in Sockets3, data \in MovePayloads3 : MakeMove(s, data)
    \/ \E s \in Sockets3 : NewGame(s)
    \/ \E s \in Sockets3 : Disconnect(s)

Spec3 == Init /\ [][Next3]_vars

(***************************************************************************)
(* One game and its replays, with every cell on offer: the store as it is  *)
(* after createRoom of s1 and joinRoom of s2, then makeMove and newGame.   *)
(***************************************************************************)

AllMovePayloads ==
    {[kind |-> k, cellIndex |-> 0] : k \in {"nodata", "missing"}}
      \cup {[kind |-> "int", cellIndex |-> i] : i \in -1..9}

InitPlay ==
    LET code == Repeat("A", CodeLen)
        room == addPlayer(createRoom(code, "s1"), "s2")
    IN  /\ rooms = <<room>>
        /\ out = << Emit("s2", "joinedRoom", [roomCode |-> code, symbol |-> "O"]),
                    Broadcast(room, "gameStart",
                              [board |-> room.board,
                               currentPlayer |-> room.currentPlayer,
                               message |-> GameStartedMessage]) >>
        /\ last = [op |-> "joinRoom", sock |-> "s2", code |-> code]
        /\ moved = [c \in GenCodes |-> NoMoves]
        /\ crashed = FALSE
        /\ evalBoard = EmptyBoard
        /\ evalResult = "pending"

NextPlay ==
    \/ \E s \in Sockets, data \in AllMovePayloads : MakeMove(s, data)
    \/ \E s \in Sockets : NewGame(s)

SpecPlay == InitPlay /\ [][NextPlay]_vars

(***************************************************************************)
(* checkWinner on its own, over every board of 9 cells.                    *)
(***************************************************************************)

Boards == [Cells -> {Null} \cup Markers]

InitEval ==
    /\ rooms = <<>>
    /\ out = <<>>
    /\ last = [op |-> "none", sock |-> "none", code |-> <<>>]
    /\ moved = [c \in GenCodes |-> NoMoves]
    /\ crashed = FALSE
    /\ evalBoard \in Boards
    /\ evalResult = "pending"

Evaluate ==
    /\ evalResult = "pending"
    /\ evalResult' = checkWinner(evalBoard)
    /\ UNCHANGED <<rooms, out, last, moved, crashed, evalBoard>>

NextEval == Evaluate

SpecEval == InitEval /\ [][NextEval]_vars

(***************************************************************************)
(* Properties.                                                             *)
(***************************************************************************)

\* The last handler was `op` and did not reject the request.
Succeeded(op) ==
    /\ last.op = op
    /\ ~crashed
    /\ out # <<>>
    /\ out[1].event # "error"

\* The last handler was `op` and rejected the request with `message`.
Rejected(op, message) ==
    /\ last.op = op
    /\ out = <<Error(last.sock, message)>>

\* The room with this code (the code is a key of the store).
RoomOf(code) == rooms[get(code)]

\* C1: after every successful joinRoom the joined room has an empty board,
\* turn X and gameActive, and the gameStart broadcast carries the empty
\* board and turn X.
C1_JoinStartsFresh ==
    Succeeded("joinRoom") =>
        LET room == RoomOf(out[1].payload.roomCode)
        IN  /\ room.board = EmptyBoard
            /\ room.currentPlayer = "X"
            /\ room.gameActive
            /\ out[2].event = "gameStart"
            /\ out[2].payload.board = EmptyBoard
            /\ out[2].payload.currentPlayer = "X"

\* C2: in every room the first player holds X and the second, when there
\* is one, holds O.
C2_FirstIsXSecondIsO ==
    \A i \in DOMAIN rooms :
        /\ Len(rooms[i].players) >= 1 => symbolOf(rooms[i], rooms[i].players[1]) = "X"
        /\ Len(rooms[i].players) >= 2 => symbolOf(rooms[i], rooms[i].players[2]) = "O"

\* C3: a room with gameActive has a board that checkWinner evaluates as in
\* progress.
C3_ActiveIsInProgress ==
    \A i \in DOMAIN rooms : rooms[i].gameActive => checkWinner(rooms[i].board) = Null

\* C4: a room with fewer than two players is not active.
C4_ActiveNeedsTwo ==
    \A i \in DOMAIN rooms : Len(rooms[i].players) < 2 => ~rooms[i].gameActive

\* A player left a game that had started: the room keeps one player and a
\* board with marks on it.
C4_Witness ==
    /\ last.op = "disconnect"
    /\ \E i \in DOMAIN rooms :
          /\ Len(rooms[i].players) = 1
          /\ rooms[i].board # EmptyBoard
          /\ out = <<Broadcast(rooms[i], "playerDisconnected",
                               [message |-> DisconnectedMessage])>>

\* C5: after an accepted move the turn is the marker that did not just
\* move, and two consecutive accepted moves in a room with no reset between
\* them are made with different markers.
C5_TurnAlternates ==
    \A i \in DOMAIN rooms :
        LET m == moved[rooms[i].code]
        IN  /\ m.last # Null => rooms[i].currentPlayer \in Markers \ {m.last}
            /\ m.prev # Null => m.prev # m.last

\* Two moves were accepted in a row in one room, and the last handler was
\* the second of them.
C5_Witness ==
    /\ Succeeded("makeMove")
    /\ \E i \in DOMAIN rooms :
          /\ last.sock \in Range(rooms[i].players)
          /\ moved[rooms[i].code].prev # Null

\* The places (room, position among its players) that hold socket s.
Seats(s) ==
    {p \in (DOMAIN rooms) \X (1..2) :
        /\ p[2] \in DOMAIN rooms[p[1]].players
        /\ rooms[p[1]].players[p[2]] = s}

\* C6: a socket id is a player of at most one room, and at most once in it.
C6_OneRoomPerSocket == \A s \in Sockets : Cardinality(Seats(s)) <= 1

\* A socket that is in a room asked for another one (create, or join of the
\* other socket's room) and was refused.
C6_Witness ==
    /\ Len(rooms) = 2
    /\ \/ Rejected("createRoom", AlreadyInSession)
       \/ Rejected("joinRoom", AlreadyInSession)

\* s is a player of some room.
InRoom(s) == \E i \in DOMAIN rooms : includes(rooms[i].players, s)

\* C7 as claimed: every createRoom or joinRoom of a socket that is already
\* in a room is answered with the AlreadyInSession error.  (Requests whose
\* handler threw are left out.)
C7_AlwaysAlreadyInSession ==
    [][\A s \in Sockets :
          (/\ InRoom(s)
           /\ last'.sock = s
           /\ last'.op \in {"createRoom", "joinRoom"}
           /\ ~crashed')
          => out' = <<Error(s, AlreadyInSession)>>]_vars

\* What joinRoom answers to a socket that is already in a room, given the
\* upper-cased code of its payload: the first failing check.
C7_JoinError(code) ==
    IF Len(code) # CodeLen THEN InvalidCode
    ELSE IF \A i \in DOMAIN rooms : rooms[i].code # code THEN NotFound
    ELSE IF \E i \in DOMAIN rooms : rooms[i].code = code /\ Len(rooms[i].players) >= 2
         THEN SessionFull
    ELSE AlreadyInSession

\* C7 amended: createRoom of a socket already in a room is answered with
\* AlreadyInSession; joinRoom of such a socket is always rejected, with the
\* first of InvalidCode, NotFound, SessionFull, AlreadyInSession that
\* applies; neither changes the store.
C7_AlreadyInSessionLast ==
    [][\A s \in Sockets :
          (InRoom(s) /\ last'.sock = s /\ ~crashed') =>
             /\ last'.op = "createRoom" =>
                   (out' = <<Error(s, AlreadyInSession)>> /\ rooms' = rooms)
             /\ last'.op = "joinRoom" =>
                   (out' = <<Error(s, C7_JoinError(last'.code))>> /\ rooms' = rooms)]_vars

\* A socket joined its own room, in which it is alone, and got
\* AlreadyInSession.
C7_Witness ==
    /\ Rejected("joinRoom", AlreadyInSession)
    /\ Len(rooms) = 1
    /\ rooms[1].players = <<last.sock>>
    /\ rooms[1].code = last.code

\* The position in `rooms` of the room that holds socket s.
SeatOf(s) == CHOOSE i \in DOMAIN rooms : includes(rooms[i].players, s)

\* C8: the disconnect of a player takes it out of its room's players and
\* symbols and leaves the room not active, in that step; the room of a last
\* player leaves the store in that step; no room of the store is ever
\* without players; and joinRoom with a well-formed code that is not a key
\* of the store is answered NotFound.
C8_DisconnectCleansUp ==
    /\ [](\A i \in DOMAIN rooms : Len(rooms[i].players) > 0)
    /\ [][\A s \in Sockets :
            (InRoom(s) /\ last'.op = "disconnect" /\ last'.sock = s) =>
               LET room == rooms[SeatOf(s)]
               IN  /\ \A j \in DOMAIN rooms' :
                        /\ ~includes(rooms'[j].players, s)
                        /\ s \notin DOMAIN rooms'[j].symbols
                   /\ IF Len(room.players) = 1
                      THEN /\ \A j \in DOMAIN rooms' : rooms'[j].code # room.code
                           /\ Len(rooms') = Len(rooms) - 1
                      ELSE /\ Len(rooms') = Len(rooms)
                           /\ \E j \in DOMAIN rooms' :
                                /\ rooms'[j].code = room.code
                                /\ ~rooms'[j].gameActive
                                /\ Len(rooms'[j].players) = Len(room.players) - 1
                                /\ rooms'[j].board = room.board]_vars
    /\ [][\A s \in Sockets :
            (/\ last'.op = "joinRoom"
             /\ last'.sock = s
             /\ Len(last'.code) = CodeLen
             /\ \A i \in DOMAIN rooms : rooms[i].code # last'.code)
            => (out' = <<Error(s, NotFound)>> /\ rooms' = rooms)]_vars

\* The last player of the only room disconnected: the store is empty.
C8_Witness ==
    /\ last.op = "disconnect"
    /\ rooms = <<>>
    /\ Len(out) = 1
    /\ out[1].event = "playerDisconnected"

\* C9: newGame of a player of a room with two players empties the board,
\* gives the turn to X and makes the room active, whatever the game state
\* was; in a room with one player it is answered InsufficientPlayers and
\* changes nothing.
C9_ResetGame ==
    [][\A s \in Sockets :
          (InRoom(s) /\ last'.op = "newGame" /\ last'.sock = s) =>
             LET i == SeatOf(s)
             IN  IF Len(rooms[i].players) = 2
                 THEN /\ Len(rooms') = Len(rooms)
                      /\ rooms'[i] = [rooms[i] EXCEPT !.board = [c \in Cells |-> Null],
                                                      !.currentPlayer = "X",
                                                      !.gameActive = TRUE]
                      /\ \A j \in DOMAIN rooms : j # i => rooms'[j] = rooms[j]
                      /\ Len(out') = 1
                      /\ out'[1].event = "gameStart"
                      /\ out'[1].payload.board = [c \in Cells |-> Null]
                      /\ out'[1].payload.currentPlayer = "X"
                 ELSE /\ out' = <<Error(s, InsufficientPlayers)>>
                      /\ rooms' = rooms]_vars

\* newGame of the room's O player was accepted and the room's board is
\* empty.
C9_Witness ==
    /\ Succeeded("newGame")
    /\ \E i \in DOMAIN rooms :
          /\ last.sock \in Range(rooms[i].players)
          /\ rooms[i].board = EmptyBoard
          /\ rooms[i].symbols[last.sock] = "O"

\* The 8 lines of the board: 3 rows, 3 columns, 2 diagonals.
Lines ==
    {{3 * r, 3 * r + 1, 3 * r + 2} : r \in 0..2}
      \cup {{c, c + 3, c + 6} : c \in 0..2}
      \cup {{0, 4, 8}, {2, 4, 6}}

\* The markers that fill some line of the board.
Winners(board) ==
    {m \in Markers : \E line \in Lines : \A i \in line : board[i] = m}

\* C10: on every board of 9 cells checkWinner returns a marker that fills
\* one of the 8 lines if there is one, "draw" if there is none and no cell
\* is empty, and null otherwise.
C10_CheckWinner ==
    evalResult # "pending" =>
        IF Winners(evalBoard) # {} THEN evalResult \in Winners(evalBoard)
        ELSE IF \A i \in Cells : evalBoard[i] \in Markers THEN evalResult = "draw"
        ELSE evalResult = Null

\* checkWinner returned O on a board where only the second diagonal is
\* filled, the last combination scanned.
C10_Witness ==
    /\ evalResult = "O"
    /\ \A i \in {2, 4, 6} : evalBoard[i] = "O"
    /\ \A i \in Cells \ {2, 4, 6} : evalBoard[i] = IF i \in {0, 5, 7} THEN "X" ELSE Null

\* No cell of the board is empty.
Full(board) == \A i \in Cells : board[i] \in Markers

\* The board after the moves 0 (X), 3 (O), 1 (X), 4 (O), 2 (X).
ScenarioBoard ==
    [i \in Cells |-> IF i \in {0, 1, 2} THEN "X" ELSE IF i \in {3, 4} THEN "O" ELSE Null]

\* C11: after an accepted move the room is not active and gameEnd (final
\* board, winner or "draw") was broadcast if the board has a filled line or
\* no empty cell; otherwise the room is active and moveMade (board, new
\* turn) was broadcast.  The board of the moves 0, 3, 1, 4, 2 ends the game
\* with winner X.
C11_EndIffWinOrDraw ==
    Succeeded("makeMove") =>
        LET room == rooms[SeatOf(last.sock)]
        IN  /\ Len(out) = 1
            /\ out[1].audience = "room"
            /\ out[1].to = Range(room.players)
            /\ out[1].payload.board = room.board
            /\ IF Winners(room.board) # {} \/ Full(room.board)
               THEN /\ ~room.gameActive
                    /\ out[1].event = "gameEnd"
                    /\ IF Winners(room.board) # {}
                       THEN out[1].payload.winner \in Winners(room.board)
                       ELSE out[1].payload.winner = "draw"
               ELSE /\ room.gameActive
                    /\ out[1].event = "moveMade"
                    /\ out[1].payload.currentPlayer = room.currentPlayer
                    /\ out[1].payload.currentPlayer # out[1].payload.lastMove.symbol
            /\ room.board = ScenarioBoard =>
                  (out[1].payload.winner = "X" /\ ~room.gameActive)

\* The moves 0, 3, 1, 4, 2 were played: X has won.
C11_Witness ==
    /\ Succeeded("makeMove")
    /\ rooms[1].board = ScenarioBoard
    /\ out[1].event = "gameEnd"

\* A game was played to a draw.
C11_DrawReached ==
    /\ Succeeded("makeMove")
    /\ out[1].event = "gameEnd"
    /\ out[1].payload.winner = "draw"

\* C12: from one step to the next the board of a room either stays as it
\* is, or gets one marker in one empty cell by an accepted makeMove, or
\* becomes empty in all 9 cells by an accepted newGame; so joinRoom,
\* disconnect and rejected requests change no cell and no marker is ever
\* replaced.
C12_CellsOnlyFill ==
    [][\A i \in DOMAIN rooms : \A j \in DOMAIN rooms' :
          rooms'[j].code = rooms[i].code =>
             \/ rooms'[j].board = rooms[i].board
             \/ /\ last'.op = "makeMove"
                /\ out'[1].event \in {"moveMade", "gameEnd"}
                /\ \E c \in Cells :
                      /\ rooms[i].board[c] = Null
                      /\ rooms'[j].board[c] \in Markers
                      /\ \A d \in Cells \ {c} : rooms'[j].board[d] = rooms[i].board[d]
             \/ /\ last'.op = "newGame"
                /\ out'[1].event = "gameStart"
                /\ \A c \in Cells : rooms'[j].board[c] = Null]_vars

\* A socket joined a room whose board has marks on it: they are still there.
C12_Witness ==
    /\ Succeeded("joinRoom")
    /\ RoomOf(last.code).board # EmptyBoard

ErrorMessages ==
    {AlreadyInSession, InvalidCode, NotFound, SessionFull, NotInSession,
     GameNotActive, NotYourTurn, InvalidMove, InsufficientPlayers}

\* C13: a handler that emits an error emits nothing else: one `error`
\* event with one of the 9 messages, to the requesting socket alone, and
\* the store after the step is the store before it.
C13_RejectChangesNothing ==
    [][(\E k \in DOMAIN out' : out'[k].event = "error") =>
          /\ Len(out') = 1
          /\ out'[1].audience = "socket"
          /\ out'[1].to = {last'.sock}
          /\ out'[1].payload.message \in ErrorMessages
          /\ rooms' = rooms
          /\ crashed' = crashed]_vars

\* A move was rejected as invalid in a room whose board has marks on it.
C13_Witness ==
    /\ last.op = "makeMove"
    /\ Len(out) = 1
    /\ out[1].event = "error"
    /\ out[1].payload.message = InvalidMove
    /\ InRoom(last.sock)
    /\ rooms[SeatOf(last.sock)].board # EmptyBoard

\* C14: an accepted makeMove of socket s with cellIndex c puts the marker
\* of s in cell c, which was empty, and changes no other cell, nor the
\* players or symbols of the room, nor any other room; and a move is
\* accepted only from a player of an active room whose marker is the turn,
\* for an integer c in 0..8.
C14_MoveFrame ==
    [][\A s \in Sockets3 :
          (/\ last'.op = "makeMove"
           /\ last'.sock = s
           /\ Len(out') = 1
           /\ out'[1].event \in {"moveMade", "gameEnd"}) =>
             /\ InRoom(s)
             /\ LET i == SeatOf(s)
                    room == rooms[i]
                IN  /\ room.gameActive
                    /\ s \in DOMAIN room.symbols
                    /\ room.symbols[s] = room.currentPlayer
                    /\ Len(rooms') = Len(rooms)
                    /\ \A j \in DOMAIN rooms : j # i => rooms'[j] = rooms[j]
                    /\ rooms'[i].code = room.code
                    /\ rooms'[i].players = room.players
                    /\ rooms'[i].symbols = room.symbols
                    /\ \E data \in AllMovePayloads : MakeMove(s, data)
                    /\ \A data \in AllMovePayloads :
                          MakeMove(s, data) =>
                             /\ data.kind = "int"
                             /\ data.cellIndex \in Cells
                             /\ room.board[data.cellIndex] = Null
                             /\ rooms'[i].board[data.cellIndex] = room.symbols[s]
                             /\ \A d \in Cells \ {data.cellIndex} :
                                   rooms'[i].board[d] = room.board[d]]_vars

\* A move was accepted in a room with marks on its board while another
\* room was in the store.
C14_Witness ==
    /\ Succeeded("makeMove")
    /\ Len(rooms) = 2
    /\ moved[rooms[SeatOf(last.sock)].code].prev # Null

\* C15: the rooms of the store have pairwise different codes, and an
\* accepted createRoom appends one room, under a code no room had, and
\* leaves the rooms that were there as they were.
C15_UniqueCodes ==
    /\ [](\A i, j \in DOMAIN rooms : i # j => rooms[i].code # rooms[j].code)
    /\ [][(/\ last'.op = "createRoom"
           /\ Len(out') = 1
           /\ out'[1].event = "roomCreated") =>
             /\ Len(rooms') = Len(rooms) + 1
             /\ \A i \in DOMAIN rooms :
                   /\ rooms'[i] = rooms[i]
                   /\ rooms[i].code # rooms'[Len(rooms')].code
             /\ rooms'[Len(rooms')].players = <<last'.sock>>
             /\ out'[1].payload.roomCode = rooms'[Len(rooms')].code]_vars

\* A room was created while another one, with marks on its board, was in
\* the store.
C15_Witness ==
    /\ Succeeded("createRoom")
    /\ Len(rooms) = 2
    /\ rooms[1].board # EmptyBoard

\* C16: no request is fatal: no handler ever throws.
C16_NeverFatal == crashed = FALSE

\* C17: makeMove of a socket that is in no room is answered NotInSession;
\* in a room that is not active, GameNotActive, whatever the turn and the
\* payload; in an active room, from the player whose marker is not the
\* turn, NotYourTurn for every payload that has a cellIndex or lacks it
\* (valid, out of range, occupied, missing).
C17_CheckOrder ==
    [][\A s \in Sockets :
          (last'.op = "makeMove" /\ last'.sock = s) =>
             IF ~InRoom(s) THEN out' = <<Emit(s, "error", [message |-> NotInSession])>>
             ELSE LET room == rooms[SeatOf(s)]
                  IN  IF ~room.gameActive
                      THEN out' = <<Emit(s, "error", [message |-> GameNotActive])>>
                      ELSE room.symbols[s] # room.currentPlayer =>
                              \A data \in AllMovePayloads :
                                 (data.kind # "nodata" /\ MakeMove(s, data)) =>
                                    /\ out' = <<Emit(s, "error", [message |-> NotYourTurn])>>
                                    /\ rooms' = rooms]_vars

\* The player who is not to move asked for a move in an active room with
\* marks on its board and got NotYourTurn.
C17_Witness ==
    /\ last.op = "makeMove"
    /\ out = <<Emit(last.sock, "error", [message |-> NotYourTurn])>>
    /\ rooms[SeatOf(last.sock)].board # EmptyBoard

\* C18: while gameEnd has been broadcast in a room and no gameStart since,
\* the room is not active, every makeMove of its players is answered
\* GameNotActive and changes nothing (so no second gameEnd is broadcast),
\* and the board changes only by an accepted newGame.
C18_NoMoveAfterEnd ==
    /\ [](\A i \in DOMAIN rooms :
             moved[rooms[i].code].ended => ~rooms[i].gameActive)
    /\ [][\A i \in DOMAIN rooms :
             moved[rooms[i].code].ended =>
                /\ \A s \in Range(rooms[i].players) :
                      (last'.op = "makeMove" /\ last'.sock = s) =>
                         /\ out' = <<Emit(s, "error", [message |-> GameNotActive])>>
                         /\ rooms' = rooms
                /\ \A j \in DOMAIN rooms' :
                      (/\ rooms'[j].code = rooms[i].code
                       /\ rooms'[j].board # rooms[i].board) =>
                         (last'.op = "newGame" /\ out'[1].event = "gameStart")
                /\ \A j \in DOMAIN rooms' :
                      (/\ rooms'[j].code = rooms[i].code
                       /\ rooms'[j].gameActive) =>
                         (/\ last'.op \in {"newGame", "joinRoom"}
                          /\ out'[Len(out')].event = "gameStart")]_vars

\* A player asked for a move after the game had ended and got GameNotActive.
C18_Witness ==
    /\ last.op = "makeMove"
    /\ out = <<Emit(last.sock, "error", [message |-> GameNotActive])>>
    /\ InRoom(last.sock)
    /\ moved[rooms[SeatOf(last.sock)].code].ended

\* C19: in an active room exactly one of the players holds the marker that
\* is the turn.
C19_OnePlayerToMove ==
    \A i \in DOMAIN rooms :
        rooms[i].gameActive =>
            Cardinality({p \in DOMAIN rooms[i].players :
                            symbolOf(rooms[i], rooms[i].players[p])
                               = rooms[i].currentPlayer}) = 1

\* C20: when gameEnd announces a marker as the winner, it is the marker of
\* the socket whose move it answers, and a line filled with that marker
\* contains the cell just played.
C20_WinnerIsMover ==
    [][(/\ last'.op = "makeMove"
        /\ Len(out') = 1
        /\ out'[1].event = "gameEnd"
        /\ out'[1].payload.winner \in Markers) =>
          LET i == SeatOf(last'.sock)
              winner == out'[1].payload.winner
          IN  /\ symbolOf(rooms[i], last'.sock) = winner
              /\ \E line \in Lines :
                    /\ \A c \in line : rooms'[i].board[c] = winner
                    /\ \E c \in line : rooms[i].board[c] = Null]_vars

====
